---- MODULE Spec2Model ----
(***************************************************************************)
(* Model of HelloTriangleApplication (src/code/main.cpp, lines 227-736):   *)
(* the start-up pipeline run() -> initWindow, initVulkan (createInstance,  *)
(* setupDebugMessenger, createSurface, pickPhysicalDevice,                 *)
(* createLogicalDevice, createSwapChain, createImageViews,                 *)
(* createGraphicsPipeline), mainLoop, cleanup, and main()'s exit.          *)
(*                                                                         *)
(* What the Vulkan runtime and GLFW report is the record `probe`; it is    *)
(* chosen once and never changes.  Queue family indices are 0-based as in  *)
(* the code: family i is queueFamilies[i + 1], and the family count is the *)
(* "not found" value.                                                      *)
(***************************************************************************)
EXTENDS Integers, Sequences, FiniteSets, TLC

VARIABLES
    probe,                  \* what the runtime reports (read-only)
    pc,                     \* the statement of main()/run()/initVulkan() to execute next
    error,                  \* what() of the exception in flight or caught, "" if none
    exitStatus,             \* value returned by main(), "running" before
    glfwInitialized,        \* glfwInit() called and glfwTerminate() not yet
    window,                 \* GLFWwindow *window
    instance,               \* vk::raii::Instance instance
    debugMessenger,         \* vk::raii::DebugUtilsMessengerEXT debugMessenger
    surface,                \* vk::raii::SurfaceKHR surface
    physicalDevice,         \* vk::raii::PhysicalDevice physicalDevice (0 = nullptr)
    device,                 \* vk::raii::Device device
    graphicsFamilyIndex,    \* uint32_t graphicsFamilyIndex
    presentFamilyIndex,     \* uint32_t presentFamilyIndex
    graphicsQueue,          \* vk::raii::Queue graphicsQueue
    presentQueue,           \* vk::raii::Queue presentQueue
    surfaceSupportQueries,  \* family indices passed to getSurfaceSupportKHR, in call order
    swapChain,              \* vk::raii::SwapchainKHR swapChain (its create info)
    swapChainImages,        \* std::vector<vk::Image> swapChainImages (their number)
    swapChainImageViews,    \* std::vector<vk::raii::ImageView> (their number)
    swapChainSurfaceFormat, \* vk::SurfaceFormatKHR swapChainSurfaceFormat
    swapChainExtent,        \* vk::Extent2D swapChainExtent
    swapChainImageFormat,   \* vk::Format swapChainImageFormat
    pipelineLayout,         \* vk::raii::PipelineLayout pipelineLayout
    destroyed               \* resources destroyed so far, in order

vars == <<probe, pc, error, exitStatus, glfwInitialized, window, instance,
          debugMessenger, surface, physicalDevice, device, graphicsFamilyIndex,
          presentFamilyIndex, graphicsQueue, presentQueue, surfaceSupportQueries,
          swapChain, swapChainImages, swapChainImageViews, swapChainSurfaceFormat,
          swapChainExtent, swapChainImageFormat, pipelineLayout, destroyed>>

(***************************************************************************)
(* Bounds of the model.                                                    *)
(***************************************************************************)
MaxDevices == 2          \* physical devices enumerated, selection scenarios
MaxFamilies == 3         \* queue families of the device, resolution scenarios
MaxFormats == 3          \* surface formats reported
MaxPresentModes == 3     \* present modes reported

(***************************************************************************)
(* Helpers on sequences.                                                   *)
(***************************************************************************)
SeqsUpTo(S, n) == UNION {[1..k -> S] : k \in 0..n}

NonEmptySeqsUpTo(S, n) == UNION {[1..k -> S] : k \in 1..n}

Range(s) == {s[i] : i \in DOMAIN s}

NoRepeat(s) == \A i, j \in DOMAIN s : s[i] = s[j] => i = j

(***************************************************************************)
(* Program constants.                                                      *)
(***************************************************************************)
WIDTH == 800
HEIGHT == 600

validationLayers == <<"VK_LAYER_KHRONOS_validation">>

enableValidationLayers == TRUE

\* vk::KHRSwapchainExtensionName, vk::KHRSpirv14ExtensionName,
\* vk::KHRSynchronization2ExtensionName, vk::KHRCreateRenderpass2ExtensionName
deviceExtensions == <<"VK_KHR_swapchain", "VK_KHR_spirv_1_4",
                      "VK_KHR_synchronization2", "VK_KHR_create_renderpass2">>

EXTDebugUtilsExtensionName == "VK_EXT_debug_utils"

\* VK_MAKE_API_VERSION(variant, major, minor, patch)
MakeApiVersion(variant, major, minor, patch) ==
    variant * (2 ^ 29) + major * (2 ^ 22) + minor * (2 ^ 12) + patch

VK_API_VERSION_1_2 == MakeApiVersion(0, 1, 2, 0)
VK_API_VERSION_1_3 == MakeApiVersion(0, 1, 3, 0)
ApiVersion14 == MakeApiVersion(0, 1, 4, 0)

\* appInfo.apiVersion of createInstance
appInfoApiVersion == ApiVersion14

NullHandle == 0

\* dummy values of members that hold no object yet
NoQueue == [family |-> -1, requested |-> FALSE]
NoFormat == [format |-> "eUndefined", colorSpace |-> "eSrgbNonlinear"]
NoExtent == [width |-> 0, height |-> 0]
NoSwapChain == [created |-> FALSE]

\* std::numeric_limits<uint32_t>::max().  TLC's integers are 32-bit signed, so
\* the model's uint32_t is 30 bits wide and this is its largest value, 2^30 - 1.
UInt32Max == 1073741823

(***************************************************************************)
(* What the runtime can report.                                            *)
(***************************************************************************)
QueueFamily == [graphics : BOOLEAN, present : BOOLEAN]

ApiVersions == {VK_API_VERSION_1_2, VK_API_VERSION_1_3, ApiVersion14}

\* extension lists of a device: all the required ones, one of them absent,
\* one of them present only under a name that differs in case
DeviceExtensionSets ==
    { {"VK_KHR_swapchain", "VK_KHR_spirv_1_4", "VK_KHR_synchronization2",
       "VK_KHR_create_renderpass2", "VK_KHR_maintenance1"},
      {"VK_KHR_swapchain", "VK_KHR_synchronization2",
       "VK_KHR_create_renderpass2"},
      {"VK_KHR_Swapchain", "VK_KHR_spirv_1_4", "VK_KHR_synchronization2",
       "VK_KHR_create_renderpass2"} }

PhysicalDevices(familyLists) ==
    [apiVersion : ApiVersions,
     queueFamilies : familyLists,
     extensions : DeviceExtensionSets]

\* family lists of the candidates of the selection scenarios: no graphics
\* family, a graphics family first, a graphics family second
SelectFamilyLists ==
    { << [graphics |-> FALSE, present |-> TRUE] >>,
      << [graphics |-> TRUE, present |-> TRUE] >>,
      << [graphics |-> FALSE, present |-> TRUE],
         [graphics |-> TRUE, present |-> FALSE] >> }

Formats == {"eB8G8R8A8Srgb", "eB8G8R8A8Unorm", "eR8G8B8A8Srgb"}

ColorSpaces == {"eSrgbNonlinear", "eDisplayP3NonlinearEXT"}

SurfaceFormats == [format : Formats, colorSpace : ColorSpaces]

PresentModes == {"eImmediate", "eMailbox", "eFifo", "eFifoRelaxed"}

\* VkSurfaceCapabilitiesKHR as the runtime may report it: maxImageCount is 0
\* (no limit) or at least minImageCount; minImageExtent is at most
\* maxImageExtent; currentExtent is the special value (all bits set) or lies
\* between minImageExtent and maxImageExtent
SurfaceCapabilitiesSet ==
    { c \in [minImageCount : {1, 2, 4},
             maxImageCount : {0, 2, 4},
             currentExtent : {[width |-> WIDTH, height |-> HEIGHT],
                              [width |-> UInt32Max, height |-> UInt32Max]},
             minImageExtent : {[width |-> 1, height |-> 1],
                               [width |-> 640, height |-> 480]},
             maxImageExtent : {[width |-> 4096, height |-> 4096],
                               [width |-> 1920, height |-> 1080]}] :
        c.maxImageCount = 0 \/ c.minImageCount <= c.maxImageCount }

\* glfwGetFramebufferSize: the size in pixels, (0, 0) for a minimised window
FramebufferSizes ==
    {[width |-> WIDTH, height |-> HEIGHT], [width |-> 1024, height |-> 768],
     [width |-> 8000, height |-> 8000], [width |-> 8000, height |-> 600],
     [width |-> 0, height |-> 0]}

\* a runtime on which every stage succeeds
DefaultProbe ==
    [layers |-> {"VK_LAYER_KHRONOS_validation"},
     instanceExtensions |-> {"VK_KHR_surface", "VK_KHR_xcb_surface",
                             "VK_EXT_debug_utils"},
     glfwExtensions |-> <<"VK_KHR_surface", "VK_KHR_xcb_surface">>,
     surfaceOk |-> TRUE,
     devices |-> << [apiVersion |-> ApiVersion14,
                     queueFamilies |-> << [graphics |-> TRUE, present |-> TRUE] >>,
                     extensions |-> {"VK_KHR_swapchain", "VK_KHR_spirv_1_4",
                                     "VK_KHR_synchronization2",
                                     "VK_KHR_create_renderpass2",
                                     "VK_KHR_maintenance1"}] >>,
     formats |-> << [format |-> "eB8G8R8A8Srgb", colorSpace |-> "eSrgbNonlinear"] >>,
     presentModes |-> <<"eFifo">>,
     capabilities |-> [minImageCount |-> 2, maxImageCount |-> 4,
                       currentExtent |-> [width |-> WIDTH, height |-> HEIGHT],
                       minImageExtent |-> [width |-> 1, height |-> 1],
                       maxImageExtent |-> [width |-> 4096, height |-> 4096]],
     framebufferSize |-> [width |-> WIDTH, height |-> HEIGHT],
     shaderFile |-> TRUE]

\* instance-level scenarios: layers, instance extensions, surface, shader file
InstanceProbes ==
    { [DefaultProbe EXCEPT !.layers = l, !.instanceExtensions = e,
                           !.surfaceOk = s, !.shaderFile = f] :
        l \in {{"VK_LAYER_KHRONOS_validation"}, {"VK_LAYER_KHRONOS_VALIDATION"}, {}},
        e \in {{"VK_KHR_surface", "VK_KHR_xcb_surface", "VK_EXT_debug_utils"},
               {"VK_KHR_surface", "VK_EXT_debug_utils"},
               {"VK_KHR_surface", "VK_KHR_xcb_surface"}},
        s \in BOOLEAN, f \in BOOLEAN }

\* device-selection scenarios: several candidates
SelectProbes ==
    { [DefaultProbe EXCEPT !.devices = d] :
        d \in SeqsUpTo(PhysicalDevices(SelectFamilyLists), MaxDevices) }

\* queue-family scenarios: one candidate, every family list
ResolveProbes ==
    { [DefaultProbe EXCEPT !.devices = <<d>>] :
        d \in PhysicalDevices(SeqsUpTo(QueueFamily, MaxFamilies)) }

\* surface-format scenarios
FormatProbes ==
    { [DefaultProbe EXCEPT !.formats = f] :
        f \in {s \in NonEmptySeqsUpTo(SurfaceFormats, MaxFormats) : NoRepeat(s)} }

\* present-mode scenarios
PresentModeProbes ==
    { [DefaultProbe EXCEPT !.presentModes = m] :
        m \in {s \in NonEmptySeqsUpTo(PresentModes, MaxPresentModes) : NoRepeat(s)} }

\* surface-capability scenarios, on a device with one or two usable families
CapabilityProbes ==
    { [DefaultProbe EXCEPT !.capabilities = c, !.framebufferSize = fb,
                           !.devices[1].queueFamilies = q] :
        c \in SurfaceCapabilitiesSet, fb \in FramebufferSizes,
        q \in { << [graphics |-> TRUE, present |-> TRUE] >>,
                << [graphics |-> TRUE, present |-> FALSE],
                   [graphics |-> FALSE, present |-> TRUE] >> } }

Probes == InstanceProbes \cup SelectProbes \cup ResolveProbes \cup FormatProbes
          \cup PresentModeProbes \cup CapabilityProbes

(***************************************************************************)
(* State after construction of HelloTriangleApplication (member            *)
(* initialisers, lines 701-722).                                           *)
(***************************************************************************)
Init ==
    /\ probe \in Probes
    /\ pc = "initWindow"
    /\ error = ""
    /\ exitStatus = "running"
    /\ glfwInitialized = FALSE
    /\ window = "none"
    /\ instance = [created |-> FALSE]
    /\ debugMessenger = FALSE
    /\ surface = FALSE
    /\ physicalDevice = NullHandle
    /\ device = [created |-> FALSE]
    /\ graphicsFamilyIndex = 0
    /\ presentFamilyIndex = 0
    /\ graphicsQueue = NoQueue
    /\ presentQueue = NoQueue
    /\ surfaceSupportQueries = <<>>
    /\ swapChain = NoSwapChain
    /\ swapChainImages = 0
    /\ swapChainImageViews = 0
    /\ swapChainSurfaceFormat = NoFormat
    /\ swapChainExtent = NoExtent
    /\ swapChainImageFormat = "eUndefined"
    /\ pipelineLayout = FALSE
    /\ destroyed = <<>>

(***************************************************************************)
(* throw std::runtime_error(msg): control passes to the catch block of     *)
(* main(); the rest of run() is skipped.                                   *)
(***************************************************************************)
Throw(msg) ==
    /\ pc' = "catch"
    /\ error' = msg

(***************************************************************************)
(* initWindow (lines 623-631).                                             *)
(***************************************************************************)
initWindow ==
    /\ pc = "initWindow"
    /\ glfwInitialized' = TRUE
    /\ window' = "created"
    /\ pc' = "createInstance"
    /\ UNCHANGED <<probe, error, exitStatus, instance, debugMessenger, surface,
                   physicalDevice, device, graphicsFamilyIndex, presentFamilyIndex,
                   graphicsQueue, presentQueue, surfaceSupportQueries, swapChain,
                   swapChainImages, swapChainImageViews, swapChainSurfaceFormat,
                   swapChainExtent, swapChainImageFormat, pipelineLayout, destroyed>>

(***************************************************************************)
(* getRequiredExtensions (lines 444-455).                                  *)
(***************************************************************************)
getRequiredExtensions ==
    IF enableValidationLayers
    THEN Append(probe.glfwExtensions, EXTDebugUtilsExtensionName)
    ELSE probe.glfwExtensions

\* requiredLayers of createInstance (lines 255-258)
requiredLayers ==
    IF enableValidationLayers THEN validationLayers ELSE <<>>

\* FirstMissingExtension whose loop stops before the last required extension
RECURSIVE FirstMissingExtension_SkipLast(_, _, _)
FirstMissingExtension_SkipLast(required, available, i) ==
    IF i >= Len(required) THEN 0
    ELSE IF \A e \in available : e # required[i] THEN i
    ELSE FirstMissingExtension_SkipLast(required, available, i + 1)

\* index of the first required extension that the runtime does not report,
\* 0 if there is none: the loop of lines 279-289
RECURSIVE FirstMissingExtension(_, _, _)
FirstMissingExtension(required, available, i) ==
    IF i > Len(required) THEN 0
    ELSE IF \A e \in available : e # required[i] THEN i
    ELSE FirstMissingExtension(required, available, i + 1)

(***************************************************************************)
(* createInstance (lines 248-299).                                         *)
(***************************************************************************)
createInstance ==
    /\ pc = "createInstance"
    /\ LET missing == FirstMissingExtension(getRequiredExtensions,
                                            probe.instanceExtensions, 1)
       IN  IF \E l \in Range(requiredLayers) : \A p \in probe.layers : p # l
           THEN /\ Throw("One or more required layers are not supported!")
                /\ UNCHANGED instance
           ELSE IF missing # 0
           THEN /\ Throw("Required GLFW extension not supported: "
                         \o getRequiredExtensions[missing])
                /\ UNCHANGED instance
           ELSE /\ instance' = [created |-> TRUE,
                                apiVersion |-> appInfoApiVersion,
                                enabledLayers |-> requiredLayers,
                                enabledExtensions |-> getRequiredExtensions]
                /\ pc' = "setupDebugMessenger"
                /\ UNCHANGED error
    /\ UNCHANGED <<probe, exitStatus, glfwInitialized, window, debugMessenger,
                   surface, physicalDevice, device, graphicsFamilyIndex,
                   presentFamilyIndex, graphicsQueue, presentQueue,
                   surfaceSupportQueries, swapChain, swapChainImages,
                   swapChainImageViews, swapChainSurfaceFormat, swapChainExtent,
                   swapChainImageFormat, pipelineLayout, destroyed>>

\* setupDebugMessenger followed by pickPhysicalDevice: initVulkan without its
\* call of createSurface
setupDebugMessenger_ThenPick ==
    /\ pc = "setupDebugMessenger"
    /\ debugMessenger' = enableValidationLayers
    /\ pc' = "pickPhysicalDevice"
    /\ UNCHANGED <<probe, error, exitStatus, glfwInitialized, window, instance,
                   surface, physicalDevice, device, graphicsFamilyIndex,
                   presentFamilyIndex, graphicsQueue, presentQueue,
                   surfaceSupportQueries, swapChain, swapChainImages,
                   swapChainImageViews, swapChainSurfaceFormat, swapChainExtent,
                   swapChainImageFormat, pipelineLayout, destroyed>>

(***************************************************************************)
(* setupDebugMessenger (lines 680-698).                                    *)
(***************************************************************************)
setupDebugMessenger ==
    /\ pc = "setupDebugMessenger"
    /\ debugMessenger' = enableValidationLayers
    /\ pc' = "createSurface"
    /\ UNCHANGED <<probe, error, exitStatus, glfwInitialized, window, instance,
                   surface, physicalDevice, device, graphicsFamilyIndex,
                   presentFamilyIndex, graphicsQueue, presentQueue,
                   surfaceSupportQueries, swapChain, swapChainImages,
                   swapChainImageViews, swapChainSurfaceFormat, swapChainExtent,
                   swapChainImageFormat, pipelineLayout, destroyed>>

(***************************************************************************)
(* createSurface (lines 301-307).                                          *)
(***************************************************************************)
createSurface ==
    /\ pc = "createSurface"
    /\ IF ~probe.surfaceOk
       THEN /\ Throw("Failed to create window surface!")
            /\ UNCHANGED surface
       ELSE /\ surface' = TRUE
            /\ pc' = "pickPhysicalDevice"
            /\ UNCHANGED error
    /\ UNCHANGED <<probe, exitStatus, glfwInitialized, window, instance,
                   debugMessenger, physicalDevice, device, graphicsFamilyIndex,
                   presentFamilyIndex, graphicsQueue, presentQueue,
                   surfaceSupportQueries, swapChain, swapChainImages,
                   swapChainImageViews, swapChainSurfaceFormat, swapChainExtent,
                   swapChainImageFormat, pipelineLayout, destroyed>>

(***************************************************************************)
(* pickPhysicalDevice (lines 309-346).                                     *)
(***************************************************************************)
\* qfpIter != queueFamilies.end() (lines 318-323)
HasGraphicsFamily(queueFamilies) ==
    \E i \in DOMAIN queueFamilies : queueFamilies[i].graphics

\* the loop over deviceExtensions (lines 326-335); strcmp(a, b) == 0 is a = b
RECURSIVE ExtensionsFound(_, _, _)
ExtensionsFound(extensions, i, found) ==
    IF i > Len(deviceExtensions) THEN found
    ELSE ExtensionsFound(extensions, i + 1,
                         found /\ (\E ext \in extensions : ext = deviceExtensions[i]))

\* IsSuitable without the check of the device extensions
IsSuitable_NoExtensions(dev) ==
    /\ dev.apiVersion >= VK_API_VERSION_1_3
    /\ HasGraphicsFamily(dev.queueFamilies)

\* IsSuitable comparing the API version with 1.2 instead of 1.3
IsSuitable_Api12(dev) ==
    /\ dev.apiVersion >= VK_API_VERSION_1_2
    /\ HasGraphicsFamily(dev.queueFamilies)
    /\ ExtensionsFound(dev.extensions, 1, TRUE)

\* IsSuitable without the check for a graphics family
IsSuitable_NoGraphics(dev) ==
    /\ dev.apiVersion >= VK_API_VERSION_1_3
    /\ ExtensionsFound(dev.extensions, 1, TRUE)

\* the value of isSuitable returned by the lambda (lines 313-341)
IsSuitable(dev) ==
    /\ dev.apiVersion >= VK_API_VERSION_1_3
    /\ HasGraphicsFamily(dev.queueFamilies)
    /\ ExtensionsFound(dev.extensions, 1, TRUE)

\* FindSuitable that keeps calling the lambda after it has returned true: the
\* last suitable device overwrites physicalDevice
RECURSIVE FindSuitable_LastWins(_, _, _)
FindSuitable_LastWins(devices, i, pd) ==
    IF i > Len(devices) THEN [devIter |-> Len(devices) + 1, physicalDevice |-> pd]
    ELSE IF IsSuitable(devices[i])
    THEN [devIter |-> i,
          physicalDevice |-> FindSuitable_LastWins(devices, i + 1, i).physicalDevice]
    ELSE FindSuitable_LastWins(devices, i + 1, pd)

\* FindSuitable whose lambda assigns physicalDevice before it tests
\* isSuitable: every examined candidate is assigned
RECURSIVE FindSuitable_AssignsExamined(_, _, _)
FindSuitable_AssignsExamined(devices, i, pd) ==
    IF i > Len(devices) THEN [devIter |-> Len(devices) + 1, physicalDevice |-> pd]
    ELSE IF IsSuitable(devices[i]) THEN [devIter |-> i, physicalDevice |-> i]
    ELSE FindSuitable_AssignsExamined(devices, i + 1, i)

\* std::ranges::find_if over devices with the lambda, which assigns
\* physicalDevice when it returns true; find_if stops at the first true.
\* pd is the value of physicalDevice so far; a device's handle is its position.
RECURSIVE FindSuitable(_, _, _)
FindSuitable(devices, i, pd) ==
    IF i > Len(devices) THEN [devIter |-> Len(devices) + 1, physicalDevice |-> pd]
    ELSE IF IsSuitable(devices[i]) THEN [devIter |-> i, physicalDevice |-> i]
    ELSE FindSuitable(devices, i + 1, pd)

pickPhysicalDevice ==
    /\ pc = "pickPhysicalDevice"
    /\ LET r == FindSuitable(probe.devices, 1, physicalDevice)
       IN  /\ physicalDevice' = r.physicalDevice
           /\ IF r.devIter = Len(probe.devices) + 1
              THEN Throw("Failed to fidn a suitable GPU!")
              ELSE /\ pc' = "createLogicalDevice"
                   /\ UNCHANGED error
    /\ UNCHANGED <<probe, exitStatus, glfwInitialized, window, instance,
                   debugMessenger, surface, device, graphicsFamilyIndex,
                   presentFamilyIndex, graphicsQueue, presentQueue,
                   surfaceSupportQueries, swapChain, swapChainImages,
                   swapChainImageViews, swapChainSurfaceFormat, swapChainExtent,
                   swapChainImageFormat, pipelineLayout, destroyed>>

(***************************************************************************)
(* createLogicalDevice (lines 348-422).                                    *)
(***************************************************************************)
\* FirstGraphicsIndex without the find_if: the distance to the first family
FirstGraphicsIndex_Begin(families, i) ==
    IF i >= Len(families) THEN Len(families) ELSE i

\* std::distance(begin, find_if(graphics bit)) (lines 352-358): the 0-based
\* index of the first family with the graphics bit, the family count if none
RECURSIVE FirstGraphicsIndex(_, _)
FirstGraphicsIndex(families, i) ==
    IF i >= Len(families) THEN Len(families)
    ELSE IF families[i + 1].graphics THEN i
    ELSE FirstGraphicsIndex(families, i + 1)

\* physicalDevice.getSurfaceSupportKHR(index, *surface); an index that is not
\* one of the device's families is invalid usage, the answer is then
\* whatever the driver returns (invalid)
getSurfaceSupportKHR(families, index, invalid) ==
    IF index < Len(families) THEN families[index + 1].present ELSE invalid

\* BothScan whose condition forgets the graphics bit
RECURSIVE BothScan_AnyPresent(_, _, _)
BothScan_AnyPresent(families, i, st) ==
    IF i >= Len(families) THEN st
    ELSE IF getSurfaceSupportKHR(families, i, FALSE)
    THEN [graphics |-> i, present |-> i, queries |-> Append(st.queries, i)]
    ELSE BothScan_AnyPresent(families, i + 1,
                             [st EXCEPT !.queries = Append(st.queries, i)])

\* the loop of lines 367-376 from qFamilyIndex = i on; st holds
\* graphicsFamilyIndex, presentFamilyIndex and the queries made so far.
\* && evaluates getSurfaceSupportKHR only for a family with the graphics bit.
RECURSIVE BothScan(_, _, _)
BothScan(families, i, st) ==
    IF i >= Len(families) THEN st
    ELSE IF families[i + 1].graphics
    THEN IF getSurfaceSupportKHR(families, i, FALSE)
         THEN [graphics |-> i, present |-> i, queries |-> Append(st.queries, i)]
         ELSE BothScan(families, i + 1,
                       [st EXCEPT !.queries = Append(st.queries, i)])
    ELSE BothScan(families, i + 1, st)

\* PresentScan without the break: the last presenting family wins
RECURSIVE PresentScan_NoBreak(_, _, _)
PresentScan_NoBreak(families, i, st) ==
    IF i >= Len(families) THEN st
    ELSE PresentScan_NoBreak(families, i + 1,
            [st EXCEPT !.present = IF getSurfaceSupportKHR(families, i, FALSE)
                                   THEN i ELSE st.present,
                       !.queries = Append(st.queries, i)])

\* the loop of lines 379-387 from qFamilyIndex = i on
RECURSIVE PresentScan(_, _, _)
PresentScan(families, i, st) ==
    IF i >= Len(families) THEN st
    ELSE IF getSurfaceSupportKHR(families, i, FALSE)
    THEN [st EXCEPT !.present = i, !.queries = Append(st.queries, i)]
    ELSE PresentScan(families, i + 1,
                     [st EXCEPT !.queries = Append(st.queries, i)])

\* ResolveQueueFamilies that runs the scans even when the first graphics
\* family presents
ResolveQueueFamilies_AlwaysScan(families, invalid) ==
    LET numFamilyProperties == Len(families)
        g0 == FirstGraphicsIndex(families, 0)
        st1 == [graphics |-> g0,
                present |-> IF getSurfaceSupportKHR(families, g0, invalid)
                            THEN g0 ELSE numFamilyProperties,
                queries |-> <<g0>>]
        st2 == BothScan(families, 0, st1)
    IN  IF st2.present = numFamilyProperties
        THEN PresentScan(families, 0, st2)
        ELSE st2

\* ResolveQueueFamilies that takes the first graphics family as present family
\* whatever the surface-support query answers
ResolveQueueFamilies_NoSupportCheck(families, invalid) ==
    LET g0 == FirstGraphicsIndex(families, 0)
    IN  [graphics |-> g0, present |-> g0, queries |-> <<g0>>]

\* graphicsFamilyIndex and presentFamilyIndex as lines 352-389 leave them
ResolveQueueFamilies(families, invalid) ==
    LET numFamilyProperties == Len(families)
        g0 == FirstGraphicsIndex(families, 0)
        st1 == [graphics |-> g0,
                present |-> IF getSurfaceSupportKHR(families, g0, invalid)
                            THEN g0 ELSE numFamilyProperties,
                queries |-> <<g0>>]
    IN  IF st1.present = numFamilyProperties
        THEN LET st2 == BothScan(families, 0, st1)
             IN  IF st2.present = numFamilyProperties
                 THEN PresentScan(families, 0, st2)
                 ELSE st2
        ELSE st1

\* QueueFamiliesUnresolved that tests the graphics index only
QueueFamiliesUnresolved_GraphicsOnly(graphicsIndex, presentIndex, numFamilyProperties) ==
    graphicsIndex = numFamilyProperties

\* the condition of the throw of lines 390-394
QueueFamiliesUnresolved(graphicsIndex, presentIndex, numFamilyProperties) ==
    \/ graphicsIndex = numFamilyProperties
    \/ presentIndex = numFamilyProperties

createLogicalDevice ==
    /\ pc = "createLogicalDevice"
    /\ LET families == probe.devices[physicalDevice].queueFamilies
           numFamilyProperties == Len(families)
       IN  \E invalid \in (IF FirstGraphicsIndex(families, 0) < numFamilyProperties
                           THEN {FALSE} ELSE BOOLEAN) :
             LET r == ResolveQueueFamilies(families, invalid)
             IN  /\ graphicsFamilyIndex' = r.graphics
                 /\ presentFamilyIndex' = r.present
                 /\ surfaceSupportQueries' = surfaceSupportQueries \o r.queries
                 /\ IF QueueFamiliesUnresolved(r.graphics, r.present,
                                               numFamilyProperties)
                    THEN /\ Throw("Could not find a queue for graphics or present")
                         /\ UNCHANGED <<device, graphicsQueue, presentQueue>>
                    ELSE \* one DeviceQueueCreateInfo, for graphicsFamilyIndex
                         /\ device' = [created |-> TRUE,
                                       queueCreateFamilies |-> <<r.graphics>>,
                                       enabledExtensions |-> deviceExtensions]
                         /\ graphicsQueue' = [family |-> r.graphics,
                                              requested |-> TRUE]
                         /\ presentQueue' = [family |-> r.present,
                                             requested |-> r.present = r.graphics]
                         /\ pc' = "createSwapChain"
                         /\ UNCHANGED error
    /\ UNCHANGED <<probe, exitStatus, glfwInitialized, window, instance,
                   debugMessenger, surface, physicalDevice, swapChain,
                   swapChainImages, swapChainImageViews, swapChainSurfaceFormat,
                   swapChainExtent, swapChainImageFormat, pipelineLayout, destroyed>>

(***************************************************************************)
(* findQueueFamilies (lines 424-442).                                      *)
(***************************************************************************)
\* ScanQueueFamilies without the break: the last family with both wins
RECURSIVE ScanQueueFamilies_NoBreak(_, _, _)
ScanQueueFamilies_NoBreak(families, queueFamilyIndex, queueIndex) ==
    IF queueFamilyIndex >= Len(families) THEN queueIndex
    ELSE ScanQueueFamilies_NoBreak(families, queueFamilyIndex + 1,
            IF /\ families[queueFamilyIndex + 1].graphics
               /\ getSurfaceSupportKHR(families, queueFamilyIndex, FALSE)
            THEN queueFamilyIndex ELSE queueIndex)

\* the loop of lines 428-436 from queueFamilyIndex on; queueIndex is its
\* value so far
RECURSIVE ScanQueueFamilies(_, _, _)
ScanQueueFamilies(families, queueFamilyIndex, queueIndex) ==
    IF queueFamilyIndex >= Len(families) THEN queueIndex
    ELSE IF /\ families[queueFamilyIndex + 1].graphics
            /\ getSurfaceSupportKHR(families, queueFamilyIndex, FALSE)
    THEN queueFamilyIndex
    ELSE ScanQueueFamilies(families, queueFamilyIndex + 1, queueIndex)

\* queueIndex starts as ~0 (all bits set); the function throws if it is
\* still ~0 after the loop, otherwise returns it
findQueueFamilies(families) ==
    LET queueIndex == ScanQueueFamilies(families, 0, UInt32Max)
    IN  [threw |-> queueIndex = UInt32Max, queueIndex |-> queueIndex]

(***************************************************************************)
(* Swapchain parameter selection (lines 585-621).                          *)
(***************************************************************************)
\* ScanSurfaceFormats with || in place of &&
RECURSIVE ScanSurfaceFormats_Or(_, _)
ScanSurfaceFormats_Or(availableFormats, i) ==
    IF i > Len(availableFormats) THEN availableFormats[1]
    ELSE IF \/ availableFormats[i].format = "eB8G8R8A8Srgb"
            \/ availableFormats[i].colorSpace = "eSrgbNonlinear"
    THEN availableFormats[i]
    ELSE ScanSurfaceFormats_Or(availableFormats, i + 1)

\* the loop of chooseSwapSurfaceFormat from position i on (lines 587-593)
RECURSIVE ScanSurfaceFormats(_, _)
ScanSurfaceFormats(availableFormats, i) ==
    IF i > Len(availableFormats) THEN availableFormats[1]
    ELSE IF /\ availableFormats[i].format = "eB8G8R8A8Srgb"
            /\ availableFormats[i].colorSpace = "eSrgbNonlinear"
    THEN availableFormats[i]
    ELSE ScanSurfaceFormats(availableFormats, i + 1)

\* chooseSwapSurfaceFormat that remembers an earlier call: once
\* swapChainImageFormat is set it returns the first entry without scanning
chooseSwapSurfaceFormat_Remembering(availableFormats) ==
    IF swapChainImageFormat # "eUndefined"
    THEN availableFormats[1]
    ELSE ScanSurfaceFormats(availableFormats, 1)

chooseSwapSurfaceFormat(availableFormats) ==
    ScanSurfaceFormats(availableFormats, 1)

\* ScanPresentModes whose loop stops one entry early
RECURSIVE ScanPresentModes_SkipLast(_, _)
ScanPresentModes_SkipLast(availablePresentModes, i) ==
    IF i >= Len(availablePresentModes) THEN availablePresentModes[1]
    ELSE IF availablePresentModes[i] = "eMailbox" THEN availablePresentModes[i]
    ELSE ScanPresentModes_SkipLast(availablePresentModes, i + 1)

\* the loop of chooseSwapPresentMode from position i on (lines 598-603)
RECURSIVE ScanPresentModes(_, _)
ScanPresentModes(availablePresentModes, i) ==
    IF i > Len(availablePresentModes) THEN availablePresentModes[1]
    ELSE IF availablePresentModes[i] = "eMailbox" THEN availablePresentModes[i]
    ELSE ScanPresentModes(availablePresentModes, i + 1)

chooseSwapPresentMode(availablePresentModes) ==
    ScanPresentModes(availablePresentModes, 1)

\* width in bits of the model's uint32_t (TLC's integers are 32-bit signed)
UInt32Bits == 30

\* conversion of an int to uint32_t
ToUInt32(x) == x % (2 ^ UInt32Bits)

\* Clamp without the upper bound
Clamp_NoUpper(v, lo, hi) == IF v < lo THEN lo ELSE v

\* std::clamp(v, lo, hi)
Clamp(v, lo, hi) == IF v < lo THEN lo ELSE IF hi < v THEN hi ELSE v

\* chooseSwapExtent that clamps the height into the bounds of the width
chooseSwapExtent_WidthBounds(capabilities, framebufferSize) ==
    IF capabilities.currentExtent.width # UInt32Max
    THEN capabilities.currentExtent
    ELSE [width |-> Clamp(ToUInt32(framebufferSize.width),
                          capabilities.minImageExtent.width,
                          capabilities.maxImageExtent.width),
          height |-> Clamp(ToUInt32(framebufferSize.height),
                           capabilities.minImageExtent.width,
                           capabilities.maxImageExtent.width)]

chooseSwapExtent(capabilities, framebufferSize) ==
    IF capabilities.currentExtent.width # UInt32Max
    THEN capabilities.currentExtent
    ELSE [width |-> Clamp(ToUInt32(framebufferSize.width),
                          capabilities.minImageExtent.width,
                          capabilities.maxImageExtent.width),
          height |-> Clamp(ToUInt32(framebufferSize.height),
                           capabilities.minImageExtent.height,
                           capabilities.maxImageExtent.height)]

Max(a, b) == IF a < b THEN b ELSE a

\* ImageCount that clamps to maxImageCount also when it is 0
ImageCount_NoZeroCheck(capabilities) ==
    LET minImageCount == Max(3, capabilities.minImageCount)
    IN  IF minImageCount > capabilities.maxImageCount
        THEN capabilities.maxImageCount
        ELSE minImageCount

\* ImageCount that starts from 3 instead of max(3, minImageCount)
ImageCount_NoMax(capabilities) ==
    LET minImageCount == 3
    IN  IF capabilities.maxImageCount > 0 /\ minImageCount > capabilities.maxImageCount
        THEN capabilities.maxImageCount
        ELSE minImageCount

\* minImageCount of createSwapChain (lines 464-468)
ImageCount(capabilities) ==
    LET minImageCount == Max(3, capabilities.minImageCount)
    IN  IF capabilities.maxImageCount > 0 /\ minImageCount > capabilities.maxImageCount
        THEN capabilities.maxImageCount
        ELSE minImageCount

\* SharingInfo that leaves the create info as initialised (line 478)
SharingInfo_AlwaysExclusive(graphicsIndex, presentIndex) ==
    [imageSharingMode |-> "eExclusive",
     queueFamilyIndexCount |-> 0,
     queueFamilyIndices |-> <<>>]

\* imageSharingMode, queueFamilyIndexCount and pQueueFamilyIndices of the
\* create info (lines 485-495)
SharingInfo(graphicsIndex, presentIndex) ==
    IF graphicsIndex # presentIndex
    THEN [imageSharingMode |-> "eConcurrent",
          queueFamilyIndexCount |-> 2,
          queueFamilyIndices |-> <<graphicsIndex, presentIndex>>]
    ELSE [imageSharingMode |-> "eExclusive",
          queueFamilyIndexCount |-> 0,
          queueFamilyIndices |-> <<>>]

(***************************************************************************)
(* createSwapChain (lines 457-499).                                        *)
(***************************************************************************)
createSwapChain ==
    /\ pc = "createSwapChain"
    /\ LET surfaceCapabilities == probe.capabilities
           fmt == chooseSwapSurfaceFormat(probe.formats)
           extent == chooseSwapExtent(surfaceCapabilities, probe.framebufferSize)
           minImageCount == ImageCount(surfaceCapabilities)
           sharing == SharingInfo(graphicsFamilyIndex, presentFamilyIndex)
       IN  /\ swapChainSurfaceFormat' = fmt
           /\ swapChainImageFormat' = fmt.format
           /\ swapChainExtent' = extent
           /\ swapChain' =
                [created |-> TRUE,
                 minImageCount |-> minImageCount,
                 imageFormat |-> fmt.format,
                 imageColorSpace |-> fmt.colorSpace,
                 imageExtent |-> extent,
                 presentMode |-> chooseSwapPresentMode(probe.presentModes),
                 imageSharingMode |-> sharing.imageSharingMode,
                 queueFamilyIndexCount |-> sharing.queueFamilyIndexCount,
                 queueFamilyIndices |-> sharing.queueFamilyIndices]
           \* swapChain.getImages(): one image per requested image
           /\ swapChainImages' = minImageCount
    /\ pc' = "createImageViews"
    /\ UNCHANGED <<probe, error, exitStatus, glfwInitialized, window, instance,
                   debugMessenger, surface, physicalDevice, device,
                   graphicsFamilyIndex, presentFamilyIndex, graphicsQueue,
                   presentQueue, surfaceSupportQueries, swapChainImageViews,
                   pipelineLayout, destroyed>>

(***************************************************************************)
(* createImageViews (lines 501-512).                                       *)
(***************************************************************************)
createImageViews ==
    /\ pc = "createImageViews"
    /\ swapChainImageViews' = swapChainImages
    /\ pc' = "createGraphicsPipeline"
    /\ UNCHANGED <<probe, error, exitStatus, glfwInitialized, window, instance,
                   debugMessenger, surface, physicalDevice, device,
                   graphicsFamilyIndex, presentFamilyIndex, graphicsQueue,
                   presentQueue, surfaceSupportQueries, swapChain, swapChainImages,
                   swapChainSurfaceFormat, swapChainExtent, swapChainImageFormat,
                   pipelineLayout, destroyed>>

(***************************************************************************)
(* createGraphicsPipeline (lines 514-583) with readFile (lines 654-667).   *)
(***************************************************************************)
createGraphicsPipeline ==
    /\ pc = "createGraphicsPipeline"
    /\ IF ~probe.shaderFile
       THEN /\ Throw("Failed to open file at shaders/slang.spv")
            /\ UNCHANGED pipelineLayout
       ELSE /\ pipelineLayout' = TRUE
            /\ pc' = "mainLoop"
            /\ UNCHANGED error
    /\ UNCHANGED <<probe, exitStatus, glfwInitialized, window, instance,
                   debugMessenger, surface, physicalDevice, device,
                   graphicsFamilyIndex, presentFamilyIndex, graphicsQueue,
                   presentQueue, surfaceSupportQueries, swapChain, swapChainImages,
                   swapChainImageViews, swapChainSurfaceFormat, swapChainExtent,
                   swapChainImageFormat, destroyed>>

(***************************************************************************)
(* mainLoop (lines 633-637): returns when the window is asked to close.    *)
(***************************************************************************)
mainLoop ==
    /\ pc = "mainLoop"
    /\ pc' = "cleanup"
    /\ UNCHANGED <<probe, error, exitStatus, glfwInitialized, window, instance,
                   debugMessenger, surface, physicalDevice, device,
                   graphicsFamilyIndex, presentFamilyIndex, graphicsQueue,
                   presentQueue, surfaceSupportQueries, swapChain, swapChainImages,
                   swapChainImageViews, swapChainSurfaceFormat, swapChainExtent,
                   swapChainImageFormat, pipelineLayout, destroyed>>

(***************************************************************************)
(* cleanup (lines 639-643).                                                *)
(***************************************************************************)
cleanup ==
    /\ pc = "cleanup"
    /\ window' = "destroyed"
    /\ glfwInitialized' = FALSE
    /\ destroyed' = destroyed \o <<"window", "glfw">>
    /\ pc' = "return"
    /\ UNCHANGED <<probe, error, exitStatus, instance, debugMessenger, surface,
                   physicalDevice, device, graphicsFamilyIndex, presentFamilyIndex,
                   graphicsQueue, presentQueue, surfaceSupportQueries, swapChain,
                   swapChainImages, swapChainImageViews, swapChainSurfaceFormat,
                   swapChainExtent, swapChainImageFormat, pipelineLayout>>

(***************************************************************************)
(* ~HelloTriangleApplication: the owning members are destroyed in the      *)
(* reverse of their declaration order (lines 701-722); a member that holds *)
(* nothing destroys nothing.                                               *)
(***************************************************************************)
\* AppDestructor destroying the members in declaration order
AppDestructor_DeclarationOrder ==
    LET live == [pipelineLayout |-> pipelineLayout,
                 swapChainImageViews |-> swapChainImageViews > 0,
                 swapChain |-> swapChain.created,
                 surface |-> surface,
                 device |-> device.created,
                 debugMessenger |-> debugMessenger,
                 instance |-> instance.created]
        IsLive(m) == live[m]
    IN  SelectSeq(<<"instance", "debugMessenger", "device", "surface",
                    "swapChain", "swapChainImageViews", "pipelineLayout">>, IsLive)

AppDestructor ==
    LET live == [pipelineLayout |-> pipelineLayout,
                 swapChainImageViews |-> swapChainImageViews > 0,
                 swapChain |-> swapChain.created,
                 surface |-> surface,
                 device |-> device.created,
                 debugMessenger |-> debugMessenger,
                 instance |-> instance.created]
        IsLive(m) == live[m]
    IN  SelectSeq(<<"pipelineLayout", "swapChainImageViews", "swapChain",
                    "surface", "device", "debugMessenger", "instance">>, IsLive)

(***************************************************************************)
(* main (lines 725-736): the catch block, and the normal return.           *)
(***************************************************************************)
\* mainCatch without its return statement: control falls through to
\* return EXIT_SUCCESS
mainCatch_FallsThrough ==
    /\ pc = "catch"
    /\ exitStatus' = "EXIT_SUCCESS"
    /\ destroyed' = destroyed \o AppDestructor
    /\ pc' = "done"
    /\ UNCHANGED <<probe, error, glfwInitialized, window, instance,
                   debugMessenger, surface, physicalDevice, device,
                   graphicsFamilyIndex, presentFamilyIndex, graphicsQueue,
                   presentQueue, surfaceSupportQueries, swapChain, swapChainImages,
                   swapChainImageViews, swapChainSurfaceFormat, swapChainExtent,
                   swapChainImageFormat, pipelineLayout>>

mainCatch ==
    /\ pc = "catch"
    /\ exitStatus' = "EXIT_FAILURE"
    /\ destroyed' = destroyed \o AppDestructor
    /\ pc' = "done"
    /\ UNCHANGED <<probe, error, glfwInitialized, window, instance,
                   debugMessenger, surface, physicalDevice, device,
                   graphicsFamilyIndex, presentFamilyIndex, graphicsQueue,
                   presentQueue, surfaceSupportQueries, swapChain, swapChainImages,
                   swapChainImageViews, swapChainSurfaceFormat, swapChainExtent,
                   swapChainImageFormat, pipelineLayout>>

mainReturn ==
    /\ pc = "return"
    /\ exitStatus' = "EXIT_SUCCESS"
    /\ destroyed' = destroyed \o AppDestructor
    /\ pc' = "done"
    /\ UNCHANGED <<probe, error, glfwInitialized, window, instance,
                   debugMessenger, surface, physicalDevice, device,
                   graphicsFamilyIndex, presentFamilyIndex, graphicsQueue,
                   presentQueue, surfaceSupportQueries, swapChain, swapChainImages,
                   swapChainImageViews, swapChainSurfaceFormat, swapChainExtent,
                   swapChainImageFormat, pipelineLayout>>

Next ==
    \/ initWindow
    \/ createInstance
    \/ setupDebugMessenger
    \/ createSurface
    \/ pickPhysicalDevice
    \/ createLogicalDevice
    \/ createSwapChain
    \/ createImageViews
    \/ createGraphicsPipeline
    \/ mainLoop
    \/ cleanup
    \/ mainCatch
    \/ mainReturn

Spec == Init /\ [][Next]_vars

(***************************************************************************)
(* Observing the run: which stage of run()/initVulkan() has completed.     *)
(***************************************************************************)
StageOrder == <<"initWindow", "createInstance", "setupDebugMessenger",
                "createSurface", "pickPhysicalDevice", "createLogicalDevice",
                "createSwapChain", "createImageViews", "createGraphicsPipeline",
                "mainLoop", "cleanup", "return">>

Position(stage) == CHOOSE i \in DOMAIN StageOrder : StageOrder[i] = stage

\* the stage that threw the exception in `error`
ErrorStage ==
    CASE error = "Failed to create window surface!" -> "createSurface"
      [] error = "Failed to fidn a suitable GPU!" -> "pickPhysicalDevice"
      [] error = "Could not find a queue for graphics or present"
             -> "createLogicalDevice"
      [] error = "Failed to open file at shaders/slang.spv"
             -> "createGraphicsPipeline"
      [] OTHER -> "createInstance"

\* the stage has run and returned normally
Completed(stage) ==
    IF error # "" THEN Position(ErrorStage) > Position(stage)
    ELSE pc = "done" \/ Position(pc) > Position(stage)

\* the stage has run and thrown
Failed(stage) == error # "" /\ ErrorStage = stage

\* the least element of a non-empty set of numbers
Least(S) == CHOOSE x \in S : \A y \in S : x <= y

\* the three predicates of device selection, stated on a candidate
Qualifies(dev) ==
    /\ dev.apiVersion >= VK_API_VERSION_1_3
    /\ \E f \in Range(dev.queueFamilies) : f.graphics
    /\ Range(deviceExtensions) \subseteq dev.extensions

QualifyingDevices == {i \in DOMAIN probe.devices : Qualifies(probe.devices[i])}

\* the queue families of the selected device, and their 0-based index sets
SelectedFamilies == probe.devices[physicalDevice].queueFamilies

GraphicsFamilies ==
    {i \in 0..(Len(SelectedFamilies) - 1) : SelectedFamilies[i + 1].graphics}

PresentFamilies ==
    {i \in 0..(Len(SelectedFamilies) - 1) : SelectedFamilies[i + 1].present}

ResolveRan == Completed("createLogicalDevice") \/ Failed("createLogicalDevice")

(***************************************************************************)
(* C1: pickPhysicalDevice selects a device if and only if at least one     *)
(* candidate satisfies all three predicates (API version, a graphics       *)
(* family, every required extension by exact name); otherwise it fails     *)
(* with the "no suitable device" error.                                    *)
(***************************************************************************)
C1_SelectsIffQualifying ==
    (Completed("pickPhysicalDevice") \/ Failed("pickPhysicalDevice")) =>
        /\ Completed("pickPhysicalDevice") <=> QualifyingDevices # {}
        /\ Completed("pickPhysicalDevice") =>
              physicalDevice \in DOMAIN probe.devices
        /\ Failed("pickPhysicalDevice") =>
              error = "Failed to fidn a suitable GPU!"

C1_Witness ==
    /\ pc = "createLogicalDevice"
    /\ Len(probe.devices) = 2
    /\ ~Qualifies(probe.devices[1])
    /\ probe.devices[1].apiVersion >= VK_API_VERSION_1_3
    /\ HasGraphicsFamily(probe.devices[1].queueFamilies)
    /\ physicalDevice = 2

(***************************************************************************)
(* C2: when several candidates qualify, the selected device is the         *)
(* qualifying candidate lowest in enumeration order, and it stays the      *)
(* selected device.                                                        *)
(***************************************************************************)
C2_FirstQualifyingWins ==
    Completed("pickPhysicalDevice") => physicalDevice = Least(QualifyingDevices)

C2_Witness ==
    /\ pc = "createLogicalDevice"
    /\ Cardinality(QualifyingDevices) = 2
    /\ probe.devices[1] # probe.devices[2]
    /\ physicalDevice = 1

(***************************************************************************)
(* C3 as stated: every selected device reports an API version greater than *)
(* or equal to the API version requested at instance creation              *)
(* (appInfo.apiVersion).                                                   *)
(***************************************************************************)
C3_Original ==
    Completed("pickPhysicalDevice") =>
        probe.devices[physicalDevice].apiVersion >= instance.apiVersion

(***************************************************************************)
(* C3 amended: every selected device reports an API version greater than   *)
(* or equal to 1.3.0, the version pickPhysicalDevice compares with, which  *)
(* is lower than the 1.4 requested at instance creation.                   *)
(***************************************************************************)
C3_SelectedApiAtLeast13 ==
    Completed("pickPhysicalDevice") =>
        /\ probe.devices[physicalDevice].apiVersion >= MakeApiVersion(0, 1, 3, 0)
        /\ instance.apiVersion = MakeApiVersion(0, 1, 4, 0)

C3_Witness ==
    /\ pc = "createLogicalDevice"
    /\ probe.devices[physicalDevice].apiVersion = MakeApiVersion(0, 1, 3, 0)
    /\ probe.devices[physicalDevice].apiVersion < instance.apiVersion

(***************************************************************************)
(* C4: tier 1.  If the lowest-index graphics family of the selected device *)
(* also presents to the surface, createLogicalDevice succeeds with that    *)
(* family in both roles and makes no further surface-support query (no     *)
(* fallback scan runs); this covers the device whose only graphics family  *)
(* presents.                                                               *)
(***************************************************************************)
C4_TierOne ==
    (ResolveRan /\ GraphicsFamilies # {}
                /\ Least(GraphicsFamilies) \in PresentFamilies) =>
        /\ Completed("createLogicalDevice")
        /\ graphicsFamilyIndex = Least(GraphicsFamilies)
        /\ presentFamilyIndex = Least(GraphicsFamilies)
        /\ surfaceSupportQueries = <<Least(GraphicsFamilies)>>

C4_Witness ==
    /\ pc = "createSwapChain"
    /\ Len(SelectedFamilies) = 3
    /\ GraphicsFamilies = {1, 2}
    /\ PresentFamilies = {0, 1, 2}
    /\ graphicsFamilyIndex = 1
    /\ presentFamilyIndex = 1
    /\ Len(surfaceSupportQueries) = 1

(***************************************************************************)
(* C5: tier 2.  If the first graphics family does not present and some     *)
(* family has both the graphics bit and presentation support,              *)
(* createLogicalDevice assigns both roles to the lowest-index such family. *)
(***************************************************************************)
C5_TierTwo ==
    (ResolveRan /\ GraphicsFamilies # {}
                /\ Least(GraphicsFamilies) \notin PresentFamilies
                /\ GraphicsFamilies \cap PresentFamilies # {}) =>
        /\ Completed("createLogicalDevice")
        /\ graphicsFamilyIndex = Least(GraphicsFamilies \cap PresentFamilies)
        /\ presentFamilyIndex = graphicsFamilyIndex

C5_Witness ==
    /\ pc = "createSwapChain"
    /\ Len(SelectedFamilies) = 3
    /\ GraphicsFamilies = {0, 2}
    /\ PresentFamilies = {1, 2}
    /\ graphicsFamilyIndex = 2
    /\ presentFamilyIndex = 2

(***************************************************************************)
(* C6: tier 3.  If no family of the selected device has both the graphics  *)
(* bit and presentation support, and some family presents,                 *)
(* createLogicalDevice keeps the lowest-index graphics family as graphics  *)
(* family and assigns the lowest-index presenting family as present        *)
(* family.                                                                 *)
(***************************************************************************)
C6_TierThree ==
    (ResolveRan /\ GraphicsFamilies # {} /\ PresentFamilies # {}
                /\ GraphicsFamilies \cap PresentFamilies = {}) =>
        /\ Completed("createLogicalDevice")
        /\ graphicsFamilyIndex = Least(GraphicsFamilies)
        /\ presentFamilyIndex = Least(PresentFamilies)

C6_Witness ==
    /\ pc = "createSwapChain"
    /\ Len(SelectedFamilies) = 3
    /\ GraphicsFamilies = {0}
    /\ PresentFamilies = {1, 2}
    /\ graphicsFamilyIndex = 0
    /\ presentFamilyIndex = 1

(***************************************************************************)
(* C7: for a selected device none of whose families presents,              *)
(* createLogicalDevice fails with the "no queue family combination" error  *)
(* and creates neither the logical device nor a queue.                     *)
(***************************************************************************)
C7_NoPresentFamilyFails ==
    (ResolveRan /\ PresentFamilies = {}) =>
        /\ Failed("createLogicalDevice")
        /\ error = "Could not find a queue for graphics or present"
        /\ pc \in {"catch", "done"}
        /\ ~device.created
        /\ graphicsQueue = NoQueue
        /\ presentQueue = NoQueue

C7_Witness ==
    /\ pc = "catch"
    /\ error = "Could not find a queue for graphics or present"
    /\ Len(SelectedFamilies) = 3
    /\ Cardinality(GraphicsFamilies) = 2
    /\ PresentFamilies = {}
    /\ ~device.created

(***************************************************************************)
(* C8: whenever createLogicalDevice returns normally, graphicsFamilyIndex  *)
(* and presentFamilyIndex are both indices below the family count of the   *)
(* selected device; they may be equal.                                     *)
(***************************************************************************)
C8_ResolvedIndicesValid ==
    Completed("createLogicalDevice") =>
        /\ graphicsFamilyIndex \in 0..(Len(SelectedFamilies) - 1)
        /\ presentFamilyIndex \in 0..(Len(SelectedFamilies) - 1)

C8_Witness ==
    /\ pc = "createSwapChain"
    /\ device.created
    /\ Len(SelectedFamilies) = 3
    /\ graphicsFamilyIndex = 2
    /\ presentFamilyIndex = 0

(***************************************************************************)
(* C9: chooseSwapSurfaceFormat returns the first entry of availableFormats *)
(* that is B8G8R8A8 SRGB with the SRGB non-linear color space, and the     *)
(* first entry of availableFormats when no entry matches.                  *)
(***************************************************************************)
PreferredFormatPositions ==
    {i \in DOMAIN probe.formats :
        probe.formats[i] = [format |-> "eB8G8R8A8Srgb",
                            colorSpace |-> "eSrgbNonlinear"]}

C9_SurfaceFormatChoice ==
    Completed("createSwapChain") =>
        /\ swapChainSurfaceFormat =
              IF PreferredFormatPositions # {}
              THEN probe.formats[Least(PreferredFormatPositions)]
              ELSE probe.formats[1]
        /\ swapChain.imageFormat = swapChainSurfaceFormat.format
        /\ swapChain.imageColorSpace = swapChainSurfaceFormat.colorSpace

C9_Witness ==
    /\ pc = "createImageViews"
    /\ Len(probe.formats) = 3
    /\ probe.formats[1].format = "eB8G8R8A8Srgb"
    /\ probe.formats[2].colorSpace = "eSrgbNonlinear"
    /\ PreferredFormatPositions = {3}
    /\ swapChainSurfaceFormat = probe.formats[3]

(***************************************************************************)
(* C10: chooseSwapPresentMode returns the mailbox mode whenever it occurs  *)
(* anywhere in availablePresentModes, and the first entry otherwise.       *)
(***************************************************************************)
C10_PresentModeChoice ==
    Completed("createSwapChain") =>
        swapChain.presentMode =
            IF "eMailbox" \in Range(probe.presentModes)
            THEN "eMailbox"
            ELSE probe.presentModes[1]

C10_Witness ==
    /\ pc = "createImageViews"
    /\ Len(probe.presentModes) = 3
    /\ probe.presentModes[3] = "eMailbox"
    /\ swapChain.presentMode = "eMailbox"

(***************************************************************************)
(* C11: if currentExtent.width is the largest uint32_t value, the extent   *)
(* is the framebuffer size with the width brought into                     *)
(* [minImageExtent.width, maxImageExtent.width] and, independently, the    *)
(* height into [minImageExtent.height, maxImageExtent.height] (1024x768    *)
(* within (1,1)..(4096,4096) stays, 8000x8000 becomes 4096x4096);          *)
(* otherwise it is currentExtent unchanged.                                *)
(***************************************************************************)
\* c is v brought into lo..hi
IsClamped(c, v, lo, hi) ==
    /\ lo <= c /\ c <= hi
    /\ (lo <= v /\ v <= hi) => c = v
    /\ v < lo => c = lo
    /\ v > hi => c = hi

C11_ExtentChoice ==
    Completed("createSwapChain") =>
        LET caps == probe.capabilities
            fb == probe.framebufferSize
            small == [width |-> 1, height |-> 1]
            large == [width |-> 4096, height |-> 4096]
        IN  IF caps.currentExtent.width = UInt32Max
            THEN /\ IsClamped(swapChainExtent.width, fb.width,
                              caps.minImageExtent.width, caps.maxImageExtent.width)
                 /\ IsClamped(swapChainExtent.height, fb.height,
                              caps.minImageExtent.height, caps.maxImageExtent.height)
                 /\ (caps.minImageExtent = small /\ caps.maxImageExtent = large
                       /\ fb = [width |-> 1024, height |-> 768])
                    => swapChainExtent = [width |-> 1024, height |-> 768]
                 /\ (caps.minImageExtent = small /\ caps.maxImageExtent = large
                       /\ fb = [width |-> 8000, height |-> 8000])
                    => swapChainExtent = large
            ELSE swapChainExtent = caps.currentExtent

C11_Witness ==
    /\ pc = "createImageViews"
    /\ probe.capabilities.currentExtent.width = UInt32Max
    /\ probe.capabilities.minImageExtent = [width |-> 640, height |-> 480]
    /\ probe.capabilities.maxImageExtent = [width |-> 1920, height |-> 1080]
    /\ probe.framebufferSize = [width |-> 8000, height |-> 600]
    /\ swapChainExtent = [width |-> 1920, height |-> 600]

(***************************************************************************)
(* C12: for every surface capability set and framebuffer size, the extent  *)
(* passed to swapchain creation has its width within                       *)
(* [minImageExtent.width, maxImageExtent.width] and its height within      *)
(* [minImageExtent.height, maxImageExtent.height], whether currentExtent   *)
(* is the special value or not.                                            *)
(***************************************************************************)
C12_ExtentWithinBounds ==
    Completed("createSwapChain") =>
        LET caps == probe.capabilities
        IN  /\ swapChain.imageExtent = swapChainExtent
            /\ caps.minImageExtent.width <= swapChain.imageExtent.width
            /\ swapChain.imageExtent.width <= caps.maxImageExtent.width
            /\ caps.minImageExtent.height <= swapChain.imageExtent.height
            /\ swapChain.imageExtent.height <= caps.maxImageExtent.height

C12_Witness ==
    /\ pc = "createImageViews"
    /\ probe.capabilities.currentExtent.width = UInt32Max
    /\ probe.capabilities.minImageExtent = [width |-> 640, height |-> 480]
    /\ probe.capabilities.maxImageExtent = [width |-> 1920, height |-> 1080]
    /\ probe.framebufferSize = [width |-> 0, height |-> 0]
    /\ swapChain.imageExtent = [width |-> 640, height |-> 480]

(***************************************************************************)
(* C13: the image count requested is max(3, minImageCount), replaced by    *)
(* maxImageCount exactly when maxImageCount is nonzero and                 *)
(* max(3, minImageCount) exceeds it; a maxImageCount of zero never clamps  *)
(* (min 2, max 4 gives 3; min 2, max 2 gives 2).                           *)
(***************************************************************************)
C13_ImageCount ==
    Completed("createSwapChain") =>
        LET caps == probe.capabilities
            wanted == IF caps.minImageCount >= 3 THEN caps.minImageCount ELSE 3
            clamps == caps.maxImageCount # 0 /\ wanted > caps.maxImageCount
        IN  /\ clamps => swapChain.minImageCount = caps.maxImageCount
            /\ ~clamps => swapChain.minImageCount = wanted
            /\ caps.maxImageCount = 0 => swapChain.minImageCount = wanted
            /\ (caps.minImageCount = 2 /\ caps.maxImageCount = 4)
                  => swapChain.minImageCount = 3
            /\ (caps.minImageCount = 2 /\ caps.maxImageCount = 2)
                  => swapChain.minImageCount = 2

C13_Witness ==
    /\ pc = "createImageViews"
    /\ probe.capabilities.minImageCount = 2
    /\ probe.capabilities.maxImageCount = 2
    /\ swapChain.minImageCount = 2

(***************************************************************************)
(* C14: the image count passed to swapchain creation is at least           *)
(* minImageCount and, when maxImageCount is nonzero, at most               *)
(* maxImageCount.                                                          *)
(***************************************************************************)
C14_ImageCountWithinBounds ==
    Completed("createSwapChain") =>
        /\ swapChain.minImageCount >= probe.capabilities.minImageCount
        /\ probe.capabilities.maxImageCount # 0 =>
              swapChain.minImageCount <= probe.capabilities.maxImageCount

C14_Witness ==
    /\ pc = "createImageViews"
    /\ probe.capabilities.minImageCount = 4
    /\ probe.capabilities.maxImageCount = 0
    /\ swapChain.minImageCount = 4

(***************************************************************************)
(* C15: createSwapChain uses exclusive sharing with an empty family list   *)
(* when graphicsFamilyIndex equals presentFamilyIndex, and otherwise       *)
(* concurrent sharing whose family list is exactly                         *)
(* [graphicsFamilyIndex, presentFamilyIndex] (0 and 1 give concurrent      *)
(* [0, 1]; 2 and 2 give exclusive with an empty list).                     *)
(***************************************************************************)
C15_SharingMode ==
    Completed("createSwapChain") =>
        /\ graphicsFamilyIndex = presentFamilyIndex =>
              /\ swapChain.imageSharingMode = "eExclusive"
              /\ swapChain.queueFamilyIndexCount = 0
              /\ swapChain.queueFamilyIndices = <<>>
        /\ graphicsFamilyIndex # presentFamilyIndex =>
              /\ swapChain.imageSharingMode = "eConcurrent"
              /\ swapChain.queueFamilyIndexCount = 2
              /\ swapChain.queueFamilyIndices =
                    <<graphicsFamilyIndex, presentFamilyIndex>>

C15_Witness ==
    /\ pc = "createImageViews"
    /\ graphicsFamilyIndex = 0
    /\ presentFamilyIndex = 1
    /\ swapChain.imageSharingMode = "eConcurrent"
    /\ swapChain.queueFamilyIndices = <<0, 1>>

StageResults ==
    <<instance.created, surface, physicalDevice # NullHandle, device.created,
      swapChain.created>>

\* exactly the first n results exist
FirstResults(n) == \A k \in 1..5 : StageResults[k] <=> k <= n

\* C17: the stages run in the fixed order, each after the previous one
\* produced its result, and none twice
C17_StageOrder ==
    /\ [](/\ pc = "createInstance" => FirstResults(0)
          /\ pc = "createSurface" => FirstResults(1)
          /\ pc = "pickPhysicalDevice" => FirstResults(2)
          /\ pc = "createLogicalDevice" => FirstResults(3)
          /\ pc = "createSwapChain" => FirstResults(4)
          /\ \E n \in 0..5 : FirstResults(n))
    /\ [][(pc \in Range(StageOrder) /\ pc' \in Range(StageOrder))
             => Position(pc') >= Position(pc)]_vars

C17_Witness ==
    /\ pc = "createImageViews"
    /\ FirstResults(5)
    /\ error = ""

(***************************************************************************)
(* C18: a failure of a stage is fatal and is not retried.  Once a stage    *)
(* has thrown, control is in main's catch block or past it, so no stage    *)
(* and not the main loop runs again; no member of the application changes  *)
(* any more; and main returns the failure exit status.                     *)
(***************************************************************************)
C18_FailureIsFatal ==
    /\ [](error # "" =>
            /\ pc \in {"catch", "done"}
            /\ pc = "catch" => exitStatus = "running"
            /\ pc = "done" => exitStatus = "EXIT_FAILURE")
    /\ [][error # "" =>
            /\ pc' = "done"
            /\ UNCHANGED <<error, glfwInitialized, window, instance,
                           debugMessenger, surface, physicalDevice, device,
                           graphicsFamilyIndex, presentFamilyIndex,
                           graphicsQueue, presentQueue, surfaceSupportQueries,
                           swapChain, swapChainImages, swapChainImageViews,
                           swapChainSurfaceFormat, swapChainExtent,
                           swapChainImageFormat, pipelineLayout>>]_vars

C18_Witness ==
    /\ pc = "done"
    /\ error = "Could not find a queue for graphics or present"
    /\ exitStatus = "EXIT_FAILURE"
    /\ physicalDevice # NullHandle
    /\ ~device.created

(***************************************************************************)
(* C19: createInstance creates the instance only if every required layer   *)
(* and every required instance extension is among the names the runtime    *)
(* reports (exact match), fails otherwise, and enables exactly the         *)
(* required layers and extensions.                                         *)
(***************************************************************************)
RequiredLayerNames == {"VK_LAYER_KHRONOS_validation"}

RequiredInstanceExtensionNames ==
    Range(probe.glfwExtensions) \cup {"VK_EXT_debug_utils"}

\* C19: the instance exists iff every required name is reported, and it
\* enables exactly the required lists
C19_NoRequirementDropped ==
    (Completed("createInstance") \/ Failed("createInstance")) =>
        /\ Completed("createInstance") <=>
              /\ RequiredLayerNames \subseteq probe.layers
              /\ RequiredInstanceExtensionNames \subseteq probe.instanceExtensions
        /\ Completed("createInstance") =>
              /\ instance.created
              /\ Len(instance.enabledLayers) = Cardinality(RequiredLayerNames)
              /\ Range(instance.enabledLayers) = RequiredLayerNames
              /\ Len(instance.enabledExtensions)
                    = Cardinality(RequiredInstanceExtensionNames)
              /\ Range(instance.enabledExtensions) = RequiredInstanceExtensionNames
        /\ Failed("createInstance") => ~instance.created

C19_Witness ==
    /\ pc = "catch"
    /\ Failed("createInstance")
    /\ probe.layers = {"VK_LAYER_KHRONOS_VALIDATION"}
    /\ RequiredInstanceExtensionNames \subseteq probe.instanceExtensions
    /\ ~instance.created

(***************************************************************************)
(* C20: every initialization failure (missing instance layer, missing      *)
(* instance extension, missing device extension, no suitable device, no    *)
(* queue-family combination) is reported with an error that identifies     *)
(* which name or requirement was missing, or that no combination exists.   *)
(***************************************************************************)
\* the text msg contains the text name
Mentions(msg, name) ==
    \E i \in 1..Len(msg) :
        /\ i + Len(name) - 1 <= Len(msg)
        /\ SubSeq(msg, i, i + Len(name) - 1) = name

MissingLayerNames == RequiredLayerNames \ probe.layers

MissingInstanceExtensionNames ==
    RequiredInstanceExtensionNames \ probe.instanceExtensions

\* the required extensions that keep a candidate with a sufficient API version
\* and a graphics family from being selected
MissingDeviceExtensionNames ==
    UNION { Range(deviceExtensions) \ probe.devices[i].extensions :
              i \in {j \in DOMAIN probe.devices :
                       /\ probe.devices[j].apiVersion >= VK_API_VERSION_1_3
                       /\ HasGraphicsFamily(probe.devices[j].queueFamilies)} }

\* C20: the error of a failed stage names what was missing
C20_FailureNamesWhatIsMissing ==
    /\ (Failed("createInstance") /\ MissingLayerNames # {}) =>
          \E l \in MissingLayerNames : Mentions(error, l)
    /\ (Failed("createInstance") /\ MissingLayerNames = {}) =>
          \E e \in MissingInstanceExtensionNames : Mentions(error, e)
    /\ (Failed("pickPhysicalDevice") /\ MissingDeviceExtensionNames # {}) =>
          \E e \in MissingDeviceExtensionNames : Mentions(error, e)
    /\ (Failed("pickPhysicalDevice") /\ MissingDeviceExtensionNames = {}) =>
          Mentions(error, "suitable GPU")
    /\ Failed("createLogicalDevice") =>
          Mentions(error, "Could not find a queue for graphics or present")

(***************************************************************************)
(* C21: on every path on which the swapchain has been created, the         *)
(* swapchain is destroyed before the logical device and before the surface *)
(* it was created against.                                                 *)
(***************************************************************************)
\* the position of a resource in the teardown log, 0 if it is not destroyed
DestroyedAt(name) ==
    IF \E i \in DOMAIN destroyed : destroyed[i] = name
    THEN CHOOSE i \in DOMAIN destroyed : destroyed[i] = name
    ELSE 0

\* a is destroyed, and b is not destroyed before it
DestroyedBefore(a, b) ==
    /\ DestroyedAt(a) > 0
    /\ DestroyedAt(b) > 0 => DestroyedAt(a) < DestroyedAt(b)

\* C21: the swapchain precedes the device and the surface in the teardown
C21_SwapchainDestroyedFirst ==
    swapChain.created =>
        /\ DestroyedAt("device") > 0 => DestroyedBefore("swapChain", "device")
        /\ DestroyedAt("surface") > 0 => DestroyedBefore("swapChain", "surface")
        /\ pc = "done" =>
              /\ DestroyedBefore("swapChain", "device")
              /\ DestroyedBefore("swapChain", "surface")
              /\ DestroyedAt("device") > 0
              /\ DestroyedAt("surface") > 0

C21_Witness ==
    /\ pc = "done"
    /\ swapChain.created
    /\ error = "Failed to open file at shaders/slang.spv"
    /\ DestroyedAt("swapChain") > 0
    /\ DestroyedAt("swapChain") < DestroyedAt("surface")
    /\ DestroyedAt("surface") < DestroyedAt("device")

(***************************************************************************)
(* C22: on every exit path of run(), including every path on which an      *)
(* initialization stage fails, each resource that had already been created *)
(* (window, instance, debug messenger, surface, device, swapchain, image   *)
(* views) is destroyed before the process exits.                           *)
(***************************************************************************)
\* the resources the run has created so far, by the name the teardown logs
CreatedResources ==
    {n \in {"window", "instance", "debugMessenger", "surface", "device",
            "swapChain", "swapChainImageViews"} :
        CASE n = "window" -> window # "none"
          [] n = "instance" -> instance.created
          [] n = "debugMessenger" -> debugMessenger
          [] n = "surface" -> surface
          [] n = "device" -> device.created
          [] n = "swapChain" -> swapChain.created
          [] n = "swapChainImageViews" -> swapChainImageViews > 0}

\* C22: when main has returned, every created resource has been destroyed
C22_CreatedResourcesDestroyed ==
    pc = "done" => \A n \in CreatedResources : DestroyedAt(n) > 0

(***************************************************************************)
(* C23: pickPhysicalDevice changes the physicalDevice member only by       *)
(* assigning the first qualifying candidate: a candidate that fails a      *)
(* predicate is never assigned, physicalDevice stays null when selection   *)
(* fails, and no other stage changes the selected device or the            *)
(* candidates' reported properties.                                        *)
(***************************************************************************)
\* C23: physicalDevice is null or a qualifying candidate; only
\* pickPhysicalDevice assigns it; the candidate list never changes
C23_SelectionFrame ==
    /\ [](/\ physicalDevice # NullHandle =>
                /\ physicalDevice \in DOMAIN probe.devices
                /\ Qualifies(probe.devices[physicalDevice])
          /\ Failed("pickPhysicalDevice") => physicalDevice = NullHandle)
    /\ [][/\ probe'.devices = probe.devices
          /\ pc # "pickPhysicalDevice" => physicalDevice' = physicalDevice
          /\ pc = "pickPhysicalDevice" =>
                physicalDevice' = IF QualifyingDevices = {} THEN physicalDevice
                                  ELSE Least(QualifyingDevices)]_vars

C23_Witness ==
    /\ Completed("createSwapChain")
    /\ physicalDevice = 2
    /\ ~Qualifies(probe.devices[1])
    /\ probe.devices[1].apiVersion >= VK_API_VERSION_1_3

(***************************************************************************)
(* C24: every queue the application retrieves from the logical device      *)
(* (graphicsQueue from graphicsFamilyIndex, presentQueue from              *)
(* presentFamilyIndex) belongs to a queue family for which a queue was     *)
(* requested in the device's creation info, also when the resolved         *)
(* graphics and present families differ.                                   *)
(***************************************************************************)
C24_RetrievedQueuesRequested ==
    device.created =>
        /\ graphicsQueue.family = graphicsFamilyIndex
        /\ presentQueue.family = presentFamilyIndex
        /\ graphicsQueue.family \in Range(device.queueCreateFamilies)
        /\ presentQueue.family \in Range(device.queueCreateFamilies)

(***************************************************************************)
(* C25: the three-tier resolution of createLogicalDevice agrees with the   *)
(* single scan of findQueueFamilies: for a family list with a graphics     *)
(* family, findQueueFamilies returns i exactly when createLogicalDevice    *)
(* resolves graphicsFamilyIndex = presentFamilyIndex = i, i being the      *)
(* lowest family with the graphics bit and presentation support, and       *)
(* createLogicalDevice resolves two different families only when           *)
(* findQueueFamilies throws.                                               *)
(***************************************************************************)
C25_AgreesWithFindQueueFamilies ==
    ResolveRan =>
        LET f == findQueueFamilies(SelectedFamilies)
            same == /\ Completed("createLogicalDevice")
                    /\ graphicsFamilyIndex = presentFamilyIndex
        IN  /\ ~f.threw <=> same
            /\ ~f.threw =>
                  /\ graphicsFamilyIndex = f.queueIndex
                  /\ presentFamilyIndex = f.queueIndex
                  /\ f.queueIndex = Least(GraphicsFamilies \cap PresentFamilies)
            /\ (Completed("createLogicalDevice")
                  /\ graphicsFamilyIndex # presentFamilyIndex) => f.threw
            /\ Failed("createLogicalDevice") => f.threw

\* the first graphics family does not present, a later family has both
C25_Witness ==
    /\ Completed("createLogicalDevice")
    /\ Len(SelectedFamilies) = 3
    /\ SelectedFamilies[1].graphics /\ ~SelectedFamilies[1].present
    /\ SelectedFamilies[2].graphics /\ SelectedFamilies[2].present
    /\ SelectedFamilies[3].graphics /\ SelectedFamilies[3].present
    /\ ~findQueueFamilies(SelectedFamilies).threw
    /\ findQueueFamilies(SelectedFamilies).queueIndex = 1
    /\ graphicsFamilyIndex = 1

(***************************************************************************)
(* C26: whenever queue-family resolution succeeds, the family at           *)
(* graphicsFamilyIndex has the graphics capability bit set and the family  *)
(* at presentFamilyIndex supports presentation to the surface.             *)
(***************************************************************************)
C26_ResolvedFamiliesCapable ==
    Completed("createLogicalDevice") =>
        /\ graphicsFamilyIndex \in GraphicsFamilies
        /\ presentFamilyIndex \in PresentFamilies

\* tier 3 on a device whose first family has neither capability
C26_Witness ==
    /\ Completed("createLogicalDevice")
    /\ Len(SelectedFamilies) = 3
    /\ ~SelectedFamilies[1].graphics /\ ~SelectedFamilies[1].present
    /\ graphicsFamilyIndex = 1
    /\ presentFamilyIndex = 2
    /\ SelectedFamilies[2].graphics
    /\ SelectedFamilies[3].present

(***************************************************************************)
(* C27: every queue-family index that createLogicalDevice passes to the    *)
(* surface-support query is a valid index, strictly less than the family   *)
(* count: for a device selected by pickPhysicalDevice the tier-1 query is  *)
(* never made with the "not found" sentinel (the family count).            *)
(***************************************************************************)
C27_SupportQueriesInRange ==
    /\ ResolveRan =>
          /\ Len(surfaceSupportQueries) >= 1
          /\ \A k \in DOMAIN surfaceSupportQueries :
                /\ surfaceSupportQueries[k] >= 0
                /\ surfaceSupportQueries[k] < Len(SelectedFamilies)
          /\ surfaceSupportQueries[1] \in GraphicsFamilies
          /\ \A g \in GraphicsFamilies : surfaceSupportQueries[1] <= g
    /\ ~ResolveRan => surfaceSupportQueries = <<>>

\* the first graphics family is the last family and does not present: tier 1
\* queries index 2, the scans query further indices
C27_Witness ==
    /\ ResolveRan
    /\ Len(SelectedFamilies) = 3
    /\ GraphicsFamilies = {2}
    /\ PresentFamilies = {1}
    /\ surfaceSupportQueries[1] = 2
    /\ Len(surfaceSupportQueries) > 2

(***************************************************************************)
(* C28: on the normal exit path (window closed by the user), the surface   *)
(* and the swapchain bound to the window are destroyed before the window   *)
(* itself is destroyed and before the windowing library is terminated.     *)
(***************************************************************************)
C28_SurfaceDestroyedBeforeWindow ==
    (error = "" /\ surface /\ swapChain.created) =>
        /\ DestroyedAt("window") > 0 =>
              /\ DestroyedBefore("surface", "window")
              /\ DestroyedBefore("swapChain", "window")
        /\ DestroyedAt("glfw") > 0 =>
              /\ DestroyedBefore("surface", "glfw")
              /\ DestroyedBefore("swapChain", "glfw")
====
